---- MODULE Spec2Model ----
(***************************************************************************)
(* Bio/MultiProc/copen.py: file-like handles around forked children.       *)
(*                                                                         *)
(* The owning process is single threaded.  Its code runs in one of two     *)
(* contexts: "owner" (ordinary calls on handles) and "hook" (the Python    *)
(* level SIGTERM handler _handle_sigterm, which the interpreter runs       *)
(* between two bytecodes of the owner, or when a blocking system call of   *)
(* the owner returns EINTR).  While the hook runs the owner is suspended.  *)
(* Children are separate processes and run concurrently with both.         *)
(*                                                                         *)
(* Every label below is one statement (or a run of statements that touch   *)
(* nothing the hook can observe) of copen.py; the line numbers are given   *)
(* at each action.                                                         *)
(***************************************************************************)
EXTENDS Integers, Sequences, FiniteSets, TLC

\* ---------------------------------------------------------------- bounds
MaxOut == 2          \* bytes an external command may write to stdout
MaxSignals == 2      \* SIGTERM deliveries to the owning process
MaxReads == 2        \* read/readline/readlines calls per handle

\* ------------------------------------------------------ program constants
SIGTERM == 15
SIGKILL == 9
GracePolls == 5      \* 0.5 s of grace polled every 0.1 s
NL == 10             \* "\n", the byte file.readlines() splits at
ByteA == 97          \* an ordinary byte, "a"
OpInt == 75          \* pickle protocol 1: BININT1
OpNone == 78         \* pickle protocol 1: NONE
OpTuple == 116       \* pickle protocol 1: TUPLE
OpStop == 46         \* pickle protocol 1: STOP
ExitFail == 255      \* os._exit(-1) as seen in the wait status

None == -1           \* Python's None, for status / killsig / _end

\* The handles the owner creates.
Handles == {1}
Ctxs == {"owner", "hook"}

\* Values a spawned callable may return, and errors it may raise.
Values == { [t |-> "none", n |-> 0], [t |-> "int", n |-> NL] }
Excs == { [kind |-> 1, msg |-> 7], [kind |-> 2, msg |-> 8] }
LoadsError == [kind |-> 99, msg |-> 99]   \* what pickle.loads raises on non-pickle text

\* What a child is going to do.
Plans ==
    { [kind |-> "sys", what |-> "run", v |-> [t |-> "none", n |-> 0], e |-> LoadsError],
      [kind |-> "sys", what |-> "execfail", v |-> [t |-> "none", n |-> 0], e |-> LoadsError] }
    \cup { [kind |-> "fn", what |-> "ret", v |-> v, e |-> LoadsError] : v \in Values }
    \cup { [kind |-> "fn", what |-> "raise", v |-> [t |-> "none", n |-> 0], e |-> e] : e \in Excs }

\* ------------------------------------------------------- pure functions
\* pickle.dumps(obj, 1) of a return value.
Dumps(v) == IF v.t = "none" THEN <<OpNone, OpStop>> ELSE <<OpInt, v.n, OpStop>>

\* pickle.dumps((etype, value, tb), 1) of an error triple.
DumpsExc(e) == <<e.kind, e.msg, OpTuple, OpStop>>

\* pickle.loads of the stdout payload.
Loads(s) ==
    IF Len(s) = 2 /\ s[1] = OpNone /\ s[2] = OpStop THEN [t |-> "none", n |-> 0]
    ELSE IF Len(s) = 3 /\ s[1] = OpInt /\ s[3] = OpStop THEN [t |-> "int", n |-> s[2]]
    ELSE [t |-> "bad", n |-> 0]

\* pickle.loads of the stderr payload followed by `etype, value, tb = error`.
LoadsExc(s) ==
    IF Len(s) = 4 /\ s[3] = OpTuple /\ s[4] = OpStop THEN [kind |-> s[1], msg |-> s[2]]
    ELSE LoadsError

\* file.readlines(): split after every newline, keep the terminators.
RECURSIVE SplitFrom(_, _)
SplitFrom(s, cur) ==
    IF s = <<>> THEN (IF cur = <<>> THEN <<>> ELSE <<cur>>)
    ELSE IF Head(s) = NL THEN <<Append(cur, NL)>> \o SplitFrom(Tail(s), <<>>)
    ELSE SplitFrom(Tail(s), Append(cur, Head(s)))

\* Mutant: the lines lose their terminators (str.splitlines()).
ReadLines_NoTerminators(s) ==
    LET ls == SplitFrom(s, <<>>) IN
      [i \in 1..Len(ls) |->
         IF ls[i][Len(ls[i])] = NL THEN SubSeq(ls[i], 1, Len(ls[i]) - 1) ELSE ls[i]]

ReadLines(s) == SplitFrom(s, <<>>)

\* "".join(output)
RECURSIVE Join(_)
Join(ls) == IF ls = <<>> THEN <<>> ELSE Head(ls) \o Join(Tail(ls))

\* The wait status `ind` of an exited child, and its two halves.
WaitStatus(c) == c.code * 256 + c.sig
StatusOf(ind) == ind \div 256
KillsigOf(ind) == ind % 256

\* list.remove(x): drops the first occurrence.
RECURSIVE ListRemove(_, _)
ListRemove(l, x) ==
    IF l = <<>> THEN <<>>
    ELSE IF Head(l) = x THEN Tail(l)
    ELSE <<Head(l)>> \o ListRemove(Tail(l), x)

InList(l, x) == \E i \in 1..Len(l) : l[i] = x

\* ----------------------------------------------------------------- state
VARIABLES
    active,     \* _active: the list of registered handles
    hd,         \* the _CommandHandle objects
    child,      \* the child processes and their pipes
    fr,         \* one frame per context: where the code is
    hsnap,      \* the hook's `_active[:]` still to be closed
    handler,    \* the installed SIGTERM disposition
    prev,       \* _PREV_SIGTERM
    alive,      \* the owning process has not been terminated
    res,        \* what the owner's last call returned or raised
    ev,         \* per handle: system calls made so far
    hist,       \* per handle: read calls completed so far
    clock,      \* time.time() as a logical clock (never zero)
    sg          \* SIGTERM deliveries, hook runs, calls of the previous handler,
                \* and the registry as the last hook run found it

vars == <<active, hd, child, fr, hsnap, handler, prev, alive, res, ev, hist, clock, sg>>

NoHandle == [st |-> "none", kind |-> "none", status |-> None, killsig |-> None,
             start |-> None, endt |-> None, cread |-> FALSE, errread |-> FALSE, output |-> <<>>,
             done |-> FALSE, closed |-> FALSE]

NoChild == [st |-> "none", plan |-> [kind |-> "sys", what |-> "run",
                                     v |-> [t |-> "none", n |-> 0], e |-> LoadsError],
            out |-> <<>>, err |-> <<>>, term |-> FALSE, kill |-> FALSE,
            code |-> 0, sig |-> 0]

\* was: the handle's state when the call began; entered: the call got into
\* the body of _cleanup_child; alive0: _kill's first waitpid found the child
\* still running.  (Bookkeeping for the properties; the code reads none.)
IdleFrame == [pc |-> "idle", h |-> 0, op |-> "none", polls |-> 0, ret |-> None,
              err |-> <<>>, eintr |-> FALSE, was |-> "none", entered |-> FALSE,
              alive0 |-> FALSE]

NoRes == [op |-> "none", h |-> 0, t |-> "none", shape |-> "none", v |-> 0,
          was |-> "none", entered |-> FALSE]

NoEv == [reaped |-> 0, term |-> 0, kill |-> 0, cclose |-> 0,
         eclose |-> 0, cleanup |-> 0]

Init ==
    /\ active = <<>>
    /\ hd = [h \in Handles |-> NoHandle]
    /\ child = [h \in Handles |-> NoChild]
    /\ fr = [c \in Ctxs |-> IdleFrame]
    /\ hsnap = <<>>
    /\ handler = "hook"
    /\ prev \in {"None", "callable"}
    /\ alive = TRUE
    /\ res = NoRes
    /\ ev = [h \in Handles |-> NoEv]
    /\ hist = [h \in Handles |-> [rd |-> 0, rl |-> 0]]
    /\ clock = 1
    /\ sg = [delivered |-> 0, hookruns |-> 0, prevcalls |-> 0, snap |-> <<>>]

\* ------------------------------------------------------------- the child
ChildAlive(h) == child[h].st \in {"run", "eof"}
ChildExited(h) == child[h].st = "zombie"

\* stdout / stderr write ends all closed: the parent's read hits end of file.
PipeEOF(h) == child[h].st \in {"eof", "zombie", "reaped"}

\* select() reports the stdout descriptor readable: data buffered, or EOF.
Readable(h) == child[h].out # <<>> \/ PipeEOF(h)

\* An external command writes one more byte to its standard output.
ChildWrite(h) ==
    /\ child[h].st = "run" /\ child[h].plan = [kind |-> "sys", what |-> "run",
                                                v |-> [t |-> "none", n |-> 0], e |-> LoadsError]
    /\ ~child[h].kill
    /\ Len(child[h].out) < MaxOut
    /\ \E b \in {ByteA, NL} :
         child' = [child EXCEPT ![h].out = Append(@, b)]
    /\ UNCHANGED <<active, hd, fr, hsnap, handler, prev, alive, res, ev, hist, clock, sg>>

\* execvp failed: the diagnostic goes to stderr and the child exits -1.
ChildExecFail(h) ==
    /\ child[h].st = "run" /\ child[h].plan.kind = "sys" /\ child[h].plan.what = "execfail"
    /\ ~child[h].kill
    /\ child[h].err = <<>>
    /\ child' = [child EXCEPT ![h].err = <<ByteA, NL>>, ![h].code = ExitFail, ![h].st = "eof"]
    /\ UNCHANGED <<active, hd, fr, hsnap, handler, prev, alive, res, ev, hist, clock, sg>>

\* The callable returned: its pickled value goes to stdout, then os._exit(0).
ChildReturn(h) ==
    /\ child[h].st = "run" /\ child[h].plan.kind = "fn" /\ child[h].plan.what = "ret"
    /\ ~child[h].kill
    /\ child' = [child EXCEPT ![h].out = Dumps(child[h].plan.v), ![h].code = 0,
                              ![h].st = "eof"]
    /\ UNCHANGED <<active, hd, fr, hsnap, handler, prev, alive, res, ev, hist, clock, sg>>

\* The callable raised: the pickled triple goes to stderr, then os._exit(-1).
ChildRaise(h) ==
    /\ child[h].st = "run" /\ child[h].plan.kind = "fn" /\ child[h].plan.what = "raise"
    /\ ~child[h].kill
    /\ child' = [child EXCEPT ![h].err = DumpsExc(child[h].plan.e), ![h].code = ExitFail,
                              ![h].st = "eof"]
    /\ UNCHANGED <<active, hd, fr, hsnap, handler, prev, alive, res, ev, hist, clock, sg>>

\* An external command closes its output descriptors while it keeps running.
ChildCloseOut(h) ==
    /\ child[h].st = "run" /\ child[h].plan.kind = "sys" /\ child[h].plan.what = "run"
    /\ ~child[h].kill
    /\ child' = [child EXCEPT ![h].st = "eof"]
    /\ UNCHANGED <<active, hd, fr, hsnap, handler, prev, alive, res, ev, hist, clock, sg>>

\* The child exits on its own (its descriptors are closed by then).
ChildExit(h) ==
    /\ child[h].st = "eof"
    /\ ~child[h].kill
    /\ child' = [child EXCEPT ![h].st = "zombie"]
    /\ UNCHANGED <<active, hd, fr, hsnap, handler, prev, alive, res, ev, hist, clock, sg>>

\* A signal that was sent ends the child.  SIGTERM may be caught or ignored
\* (the action need never happen); SIGKILL cannot.
ChildDie(h) ==
    /\ ChildAlive(h)
    /\ \/ child[h].kill /\ child' = [child EXCEPT ![h].st = "zombie", ![h].code = 0,
                                                   ![h].sig = SIGKILL]
       \/ child[h].term /\ ~child[h].kill
            /\ child' = [child EXCEPT ![h].st = "zombie", ![h].code = 0, ![h].sig = SIGTERM]
    /\ UNCHANGED <<active, hd, fr, hsnap, handler, prev, alive, res, ev, hist, clock, sg>>

\* ------------------------------------------------------------- contexts
\* The context whose code is executing: the hook suspends the owner.
Ctx == IF fr["hook"].pc # "idle" THEN "hook" ELSE "owner"

At(c, label) == alive /\ Ctx = c /\ fr[c].pc = label
AtAny(label) == alive /\ fr[Ctx].pc = label

OwnerIdle == alive /\ fr["owner"].pc = "idle" /\ fr["hook"].pc = "idle"

ValueErr == [kind |-> 90, msg |-> 0]        \* ValueError
OSErr == [kind |-> 91, msg |-> 0]           \* OSError
SelectErr == [kind |-> 92, msg |-> 0]       \* select.error
AttributeErr == [kind |-> 93, msg |-> 0]    \* AttributeError

\* The handle's state as the spec names it.
Was(h) ==
    IF hd[h].st # "ready" THEN "new"
    ELSE IF hd[h].closed THEN "closed"
    ELSE IF hd[h].done THEN "done"
    ELSE "running"

\* A call that returns in its first statement.
Immediate(op, h, t, shape, v) ==
    res' = [op |-> op, h |-> h, t |-> t, shape |-> shape, v |-> v, was |-> Was(h),
            entered |-> FALSE]

\* The frame of a call that goes on to `label`.
Frame(op, h, label) ==
    [IdleFrame EXCEPT !.pc = label, !.h = h, !.op = op, !.was = Was(h)]

Goto(c, label) == fr' = [fr EXCEPT ![c].pc = label]

\* The running call returns `v` (of the given shape) to its caller: the owner
\* gets its result, the hook goes on with its loop.
Return(c, shape, v) ==
    IF c = "owner"
    THEN /\ fr' = [fr EXCEPT !["owner"] = IdleFrame]
         /\ res' = [op |-> fr[c].op, h |-> fr[c].h, t |-> "ret", shape |-> shape, v |-> v,
                     was |-> fr[c].was, entered |-> fr[c].entered]
    ELSE /\ fr' = [fr EXCEPT !["hook"] = [IdleFrame EXCEPT !.pc = "h_iter"]]
         /\ res' = res

\* The running call raises: the exception unwinds every frame of the process.
Raise(c, e) ==
    /\ fr' = [x \in Ctxs |-> IdleFrame]
    /\ res' = [op |-> fr[c].op, h |-> fr[c].h, t |-> "exc", shape |-> "exc", v |-> e,
                was |-> fr[c].was, entered |-> fr[c].entered]

Bump(h, f) == ev' = [ev EXCEPT ![h][f] = @ + 1]

\* The attribute names used here that start with 'readline'.
ReadlinePrefixed == {"readline", "readlines"}

\* Mutant: the test is `attr == 'readline'`, readlines slips through.
Lookup_ExactName(h, attr) ==
    IF hd[h].kind = "fn" /\ attr = "read" THEN "pickle_read"
    ELSE IF hd[h].kind = "fn" /\ attr = "readline" THEN "AttributeError"
    ELSE "command"

\* Attribute lookup on the object the caller holds.  copen_sys hands out the
\* _CommandHandle itself; copen_fn hands out a _PickleHandle, which defines
\* read (339) and sends every other name through __getattr__ (333-337):
\* AttributeError for the names that start with 'readline', the attribute of
\* the wrapped _CommandHandle for the rest.
Lookup(h, attr) ==
    IF hd[h].kind = "fn" /\ attr = "read" THEN "pickle_read"
    ELSE IF hd[h].kind = "fn" /\ attr \in ReadlinePrefixed THEN "AttributeError"
    ELSE "command"
\* ---------------------------------------------- copen_sys / copen_fn, __init__
\* Lines 43-60 / 73-96 and 134: the pipes, the fork, and `_active.append(self)`,
\* the first statement of __init__.  The object has no attributes yet.
Spawn(h, p) ==
    /\ OwnerIdle
    /\ hd[h].st = "none"
    /\ \A g \in Handles : g < h => hd[g].st # "none"
    /\ child' = [child EXCEPT ![h] = [NoChild EXCEPT !.st = "run", !.plan = p]]
    /\ active' = Append(active, h)
    /\ hd' = [hd EXCEPT ![h].st = "new", ![h].kind = p.kind]
    /\ fr' = [fr EXCEPT !["owner"] = Frame("init", h, "init_fields")]
    /\ res' = NoRes
    /\ UNCHANGED <<hsnap, handler, prev, alive, ev, hist, clock, sg>>

\* Lines 136-144: the attributes, _closed last.
InitFields ==
    /\ At("owner", "init_fields")
    /\ LET h == fr["owner"].h IN
         hd' = [hd EXCEPT ![h] = [st |-> "ready", kind |-> hd[h].kind, status |-> None,
                                  killsig |-> None, start |-> clock, endt |-> None,
                                  cread |-> TRUE,
                                  errread |-> TRUE, output |-> <<>>, done |-> FALSE,
                                  closed |-> FALSE]]
    /\ Return("owner", "none", 0)
    /\ UNCHANGED <<active, child, hsnap, handler, prev, alive, ev, hist, clock, sg>>

\* ------------------------------------------------------------------ poll
\* Lines 253-254: `if self._done: return 1`.
CallPoll(h) ==
    /\ OwnerIdle
    /\ hd[h].st = "ready"
    /\ Lookup(h, "poll") = "command"
    /\ IF hd[h].done
       THEN /\ Immediate("poll", h, "ret", "int", 1)
            /\ UNCHANGED fr
       ELSE /\ fr' = [fr EXCEPT !["owner"] = Frame("poll", h, "p_select")]
            /\ res' = NoRes
    /\ UNCHANGED <<active, hd, child, hsnap, handler, prev, alive, ev, hist, clock, sg>>

\* Line 256: select.select([self], [], [], 0); select calls self.fileno(),
\* which raises ValueError on a closed file (line 198).
PollSelect ==
    /\ At("owner", "p_select")
    /\ LET h == fr["owner"].h IN
         IF ~hd[h].cread THEN Raise("owner", ValueErr)
         ELSE /\ Goto("owner", IF Readable(h) THEN "cl_check" ELSE "p_ret")
              /\ UNCHANGED res
    /\ UNCHANGED <<active, hd, child, hsnap, handler, prev, alive, ev, hist, clock, sg>>

\* Line 258: `return self._done`.
PollReturn ==
    /\ At("owner", "p_ret")
    /\ Return("owner", "int", IF hd[fr["owner"].h].done THEN 1 ELSE 0)
    /\ UNCHANGED <<active, hd, child, hsnap, handler, prev, alive, ev, hist, clock, sg>>

\* ------------------------------- fileno, elapsed, pid, status, killsig
GetAttrs == {"fileno", "elapsed", "pid", "status", "killsig"}

\* Python's truth test on _end: None and 0 are false.
Truthy(x) == x # None /\ x # 0

\* Line 198: fileno() is self._cread.fileno(), ValueError on a closed file;
\* lines 266-268: elapsed(); and the plain attributes pid, status, killsig.
\* The descriptor and the pid are both named by the handle's number.
CallGet(h, attr) ==
    /\ OwnerIdle
    /\ hd[h].st = "ready"
    /\ IF Lookup(h, attr) = "AttributeError"
       THEN Immediate(attr, h, "exc", "exc", AttributeErr)
       ELSE CASE attr = "fileno" ->
                   IF hd[h].cread THEN Immediate(attr, h, "ret", "int", h)
                   ELSE Immediate(attr, h, "exc", "exc", ValueErr)
              [] attr = "elapsed" ->
                   Immediate(attr, h, "ret", "int",
                             IF Truthy(hd[h].endt) THEN hd[h].endt - hd[h].start
                             ELSE clock - hd[h].start)
              [] attr = "pid" -> Immediate(attr, h, "ret", "int", h)
              [] attr = "status" -> Immediate(attr, h, "ret", "int", hd[h].status)
              [] OTHER -> Immediate(attr, h, "ret", "int", hd[h].killsig)
    /\ UNCHANGED <<active, hd, child, fr, hsnap, handler, prev, alive, ev, hist, clock, sg>>

\* ---------------------------------------- wait, read, readline, readlines
\* Lines 206 / 219 / 230 call wait(); lines 241-242: `if self._done: return`.
\* On a _PickleHandle, readline and readlines raise AttributeError (335-336).
StartWait(h, op) ==
    /\ OwnerIdle
    /\ hd[h].st = "ready"
    /\ op # "wait" => hist[h].rd + hist[h].rl < MaxReads
    /\ IF Lookup(h, op) = "AttributeError"
       THEN /\ Immediate(op, h, "exc", "exc", AttributeErr)
            /\ UNCHANGED fr
       ELSE IF hd[h].done /\ op = "wait"
       THEN /\ Immediate(op, h, "ret", "none", 0)
            /\ UNCHANGED fr
       ELSE /\ fr' = [fr EXCEPT !["owner"] =
                        Frame(op, h, IF hd[h].done THEN "r_take" ELSE "w_select")]
            /\ res' = NoRes
    /\ UNCHANGED <<active, hd, child, hsnap, handler, prev, alive, ev, hist, clock, sg>>

CallWait(h) == StartWait(h, "wait")
CallRead(h) == StartWait(h, "read")
CallReadline(h) == StartWait(h, "readline")
CallReadlines(h) == StartWait(h, "readlines")

\* Line 244: select.select([self], [], []) blocks until the descriptor is
\* readable; a signal handled meanwhile makes it raise select.error (EINTR).
WaitSelect ==
    /\ At("owner", "w_select")
    /\ LET h == fr["owner"].h IN
         IF ~hd[h].cread THEN Raise("owner", ValueErr)
         ELSE IF fr["owner"].eintr THEN Raise("owner", SelectErr)
         ELSE /\ Readable(h)
              /\ Goto("owner", "cl_check")
              /\ UNCHANGED res
    /\ UNCHANGED <<active, hd, child, hsnap, handler, prev, alive, ev, hist, clock, sg>>

\* Mutant: _PickleHandle.read hands out the pickled bytes.
Taken_Raw(h, op) ==
    CASE op = "read" -> [shape |-> "bytes", v |-> Join(hd[h].output), rest |-> <<>>]
      [] op = "readlines" -> [shape |-> "lines", v |-> hd[h].output, rest |-> <<>>]
      [] OTHER ->
           IF hd[h].output = <<>>
           THEN [shape |-> "bytes", v |-> <<>>, rest |-> <<>>]
           ELSE [shape |-> "bytes", v |-> Head(hd[h].output), rest |-> Tail(hd[h].output)]

\* Lines 207-211 / 220-222 / 231-233, and _PickleHandle.read, lines 346-349.
Taken(h, op) ==
    CASE op = "read" ->
           LET r == Join(hd[h].output) IN
             IF hd[h].kind = "fn" /\ r # <<>>
             THEN [shape |-> "val", v |-> Loads(r), rest |-> <<>>]
             ELSE [shape |-> "bytes", v |-> r, rest |-> <<>>]
      [] op = "readlines" -> [shape |-> "lines", v |-> hd[h].output, rest |-> <<>>]
      [] OTHER ->
           IF hd[h].output = <<>>
           THEN [shape |-> "bytes", v |-> <<>>, rest |-> <<>>]
           ELSE [shape |-> "bytes", v |-> Head(hd[h].output), rest |-> Tail(hd[h].output)]

ReadTake ==
    /\ At("owner", "r_take")
    /\ LET h == fr["owner"].h
           op == fr["owner"].op
           t == Taken(h, op)
       IN /\ hd' = [hd EXCEPT ![h].output = t.rest]
          /\ hist' = [hist EXCEPT ![h] = IF op = "readline" THEN [@ EXCEPT !.rl = @ + 1]
                                                           ELSE [@ EXCEPT !.rd = @ + 1]]
          /\ Return("owner", t.shape, t.v)
    /\ UNCHANGED <<active, child, hsnap, handler, prev, alive, ev, clock, sg>>

\* -------------------------------------------------------- _cleanup_child
\* Where the caller of _cleanup_child goes on: poll at line 258, wait returns,
\* the read methods take from the buffer.
AfterCleanup(op) ==
    IF op = "poll" THEN Goto("owner", "p_ret") /\ UNCHANGED res
    ELSE IF op = "wait" THEN Return("owner", "none", 0)
    ELSE Goto("owner", "r_take") /\ UNCHANGED res

\* Lines 276-277: `if self._done: return`.
CleanupCheck ==
    /\ At("owner", "cl_check")
    /\ LET h == fr["owner"].h IN
         IF hd[h].done
         THEN AfterCleanup(fr["owner"].op) /\ UNCHANGED ev
         ELSE /\ fr' = [fr EXCEPT !["owner"].pc = "cl_readlines", !["owner"].entered = TRUE]
              /\ Bump(h, "cleanup")
              /\ UNCHANGED res
    /\ UNCHANGED <<active, hd, child, hsnap, handler, prev, alive, hist, clock, sg>>

\* Line 280: self._output = self._cread.readlines(): reads to end of file (a
\* signal handled while the read waits does not end it: the file object goes
\* on reading once the handler has returned).
CleanupReadlines ==
    /\ At("owner", "cl_readlines")
    /\ LET h == fr["owner"].h IN
         /\ PipeEOF(h)
         /\ hd' = [hd EXCEPT ![h].output = ReadLines(child[h].out)]
    /\ Goto("owner", "cl_cclose")
    /\ UNCHANGED <<active, child, hsnap, handler, prev, alive, res, ev, hist, clock, sg>>

\* Mutant: line 281 is missing, the stdout stream stays open.
CleanupCloseOut_LeavesOpen ==
    /\ At("owner", "cl_cclose")
    /\ Goto("owner", "cl_errread")
    /\ UNCHANGED <<active, hd, child, hsnap, handler, prev, alive, res, ev, hist, clock, sg>>

\* Line 281: self._cread.close().
CleanupCloseOut ==
    /\ At("owner", "cl_cclose")
    /\ LET h == fr["owner"].h IN
         /\ hd' = [hd EXCEPT ![h].cread = FALSE]
         /\ Bump(h, "cclose")
    /\ Goto("owner", "cl_errread")
    /\ UNCHANGED <<active, child, hsnap, handler, prev, alive, res, hist, clock, sg>>

\* Lines 282-283: error = self._errread.read(): reads to end of file.
CleanupReadErr ==
    /\ At("owner", "cl_errread")
    /\ LET h == fr["owner"].h IN
         /\ PipeEOF(h)
         /\ fr' = [fr EXCEPT !["owner"].pc = "cl_errclose", !["owner"].err = child[h].err]
    /\ UNCHANGED <<active, hd, child, hsnap, handler, prev, alive, res, ev, hist, clock, sg>>

\* Line 284: self._errread.close().
CleanupCloseErr ==
    /\ At("owner", "cl_errclose")
    /\ LET h == fr["owner"].h IN
         /\ hd' = [hd EXCEPT ![h].errread = FALSE]
         /\ Bump(h, "eclose")
    /\ Goto("owner", "cl_raise")
    /\ UNCHANGED <<active, child, hsnap, handler, prev, alive, res, hist, clock, sg>>

\* Mutant: the stderr payload is read and dropped.
CleanupRaise_Swallowed ==
    /\ At("owner", "cl_raise")
    /\ Goto("owner", "cl_member")
    /\ UNCHANGED <<active, hd, child, hsnap, handler, prev, alive, res, ev, hist, clock, sg>>

\* Lines 285-291: a non-empty stderr payload is unpickled and raised.
CleanupRaise ==
    /\ At("owner", "cl_raise")
    /\ IF fr["owner"].err # <<>>
       THEN Raise("owner", LoadsExc(fr["owner"].err))
       ELSE Goto("owner", "cl_member") /\ UNCHANGED res
    /\ UNCHANGED <<active, hd, child, hsnap, handler, prev, alive, ev, hist, clock, sg>>

\* Line 293: `if _active and self in _active`.
CleanupMember ==
    /\ At("owner", "cl_member")
    /\ Goto("owner", IF active # <<>> /\ InList(active, fr["owner"].h)
                     THEN "cl_remove" ELSE "cl_waitpid")
    /\ UNCHANGED <<active, hd, child, hsnap, handler, prev, alive, res, ev, hist, clock, sg>>

\* Line 294: _active.remove(self); list.remove raises ValueError when absent.
CleanupRemove ==
    /\ At("owner", "cl_remove")
    /\ LET h == fr["owner"].h IN
         IF InList(active, h)
         THEN /\ active' = ListRemove(active, h)
              /\ Goto("owner", "cl_waitpid")
              /\ UNCHANGED res
         ELSE Raise("owner", ValueErr) /\ UNCHANGED active
    /\ UNCHANGED <<hd, child, hsnap, handler, prev, alive, ev, hist, clock, sg>>

\* Line 296: pid, ind = os.waitpid(self.pid, 0): blocks until the child has
\* exited; OSError when it was reaped before (ECHILD) or when a signal was
\* handled during the wait (EINTR).
CleanupWaitpid ==
    /\ At("owner", "cl_waitpid")
    /\ LET h == fr["owner"].h IN
         IF fr["owner"].eintr \/ child[h].st = "reaped"
         THEN /\ Raise("owner", OSErr)
              /\ UNCHANGED <<child, ev>>
         ELSE /\ ChildExited(h)
              /\ child' = [child EXCEPT ![h].st = "reaped"]
              /\ Bump(h, "reaped")
              /\ fr' = [fr EXCEPT !["owner"].pc = "cl_set",
                                  !["owner"].ret = WaitStatus(child[h])]
              /\ UNCHANGED res
    /\ UNCHANGED <<active, hd, hsnap, handler, prev, alive, hist, clock, sg>>

\* Lines 297-299: status, killsig, _end, _done.
CleanupSet ==
    /\ At("owner", "cl_set")
    /\ LET h == fr["owner"].h
           ind == fr["owner"].ret
       IN hd' = [hd EXCEPT ![h].status = StatusOf(ind), ![h].killsig = KillsigOf(ind),
                           ![h].endt = clock, ![h].done = TRUE]
    /\ clock' = clock + 1
    /\ AfterCleanup(fr["owner"].op)
    /\ UNCHANGED <<active, child, hsnap, handler, prev, alive, ev, hist, sg>>
\* ----------------------------------------------------------------- close
\* Lines 178-179, called by the owner: a closed handle returns at once.
CallClose(h) ==
    /\ OwnerIdle
    /\ hd[h].st = "ready"
    /\ Lookup(h, "close") = "command"
    /\ IF hd[h].closed
       THEN /\ Immediate("close", h, "ret", "none", 0)
            /\ UNCHANGED fr
       ELSE /\ fr' = [fr EXCEPT !["owner"] = Frame("close", h, "c_member")]
            /\ res' = NoRes
    /\ UNCHANGED <<active, hd, child, hsnap, handler, prev, alive, ev, hist, clock, sg>>

\* Line 181: `if _active and self in _active`.
CloseMember ==
    /\ AtAny("c_member")
    /\ Goto(Ctx, IF active # <<>> /\ InList(active, fr[Ctx].h) THEN "c_remove" ELSE "c_done")
    /\ UNCHANGED <<active, hd, child, hsnap, handler, prev, alive, res, ev, hist, clock, sg>>

\* Line 182: _active.remove(self); list.remove raises ValueError when absent.
CloseRemove ==
    /\ AtAny("c_remove")
    /\ LET h == fr[Ctx].h IN
         IF InList(active, h)
         THEN /\ active' = ListRemove(active, h)
              /\ Goto(Ctx, "c_done")
              /\ UNCHANGED res
         ELSE Raise(Ctx, ValueErr) /\ UNCHANGED active
    /\ UNCHANGED <<hd, child, hsnap, handler, prev, alive, ev, hist, clock, sg>>

\* Mutant: close() runs the kill sequence whatever _done says.
CloseDoneCheck_IgnoresDone ==
    /\ AtAny("c_done")
    /\ Goto(Ctx, "k_wait0")
    /\ UNCHANGED <<active, hd, child, hsnap, handler, prev, alive, res, ev, hist, clock, sg>>

\* Line 183: `if not self._done`.
CloseDoneCheck ==
    /\ AtAny("c_done")
    /\ Goto(Ctx, IF hd[fr[Ctx].h].done THEN "c_out" ELSE "k_wait0")
    /\ UNCHANGED <<active, hd, child, hsnap, handler, prev, alive, res, ev, hist, clock, sg>>

\* _kill returns `r` to line 184.
KillReturns(c, r) == fr' = [fr EXCEPT ![c].pc = "c_set", ![c].ret = r]

\* os.waitpid(self.pid, os.WNOHANG) inside _kill: reaps an exited child, finds a
\* running one still there, raises OSError when there is no such child.
TryReap(c, h, onReaped, onAlive) ==
    CASE child[h].st = "zombie" ->
           /\ child' = [child EXCEPT ![h].st = "reaped"]
           /\ Bump(h, "reaped")
           /\ KillReturns(c, onReaped)
      [] child[h].st \in {"run", "eof"} ->
           /\ UNCHANGED <<child, ev>>
           /\ onAlive
      [] OTHER ->
           /\ UNCHANGED <<child, ev>>
           /\ KillReturns(c, None)

\* Lines 152-154: the first, non-blocking reap; `return 0` when the child died.
KillReapFirst ==
    /\ AtAny("k_wait0")
    /\ TryReap(Ctx, fr[Ctx].h, 0, fr' = [fr EXCEPT ![Ctx].pc = "k_term", ![Ctx].alive0 = TRUE])
    /\ UNCHANGED <<active, hd, hsnap, handler, prev, alive, res, hist, clock, sg>>

\* Lines 156-158: os.kill(self.pid, signal.SIGTERM), then the deadline.
KillTerm ==
    /\ AtAny("k_term")
    /\ LET h == fr[Ctx].h IN
         IF child[h].st \in {"run", "eof", "zombie"}
         THEN /\ child' = [child EXCEPT ![h].term = ChildAlive(h)]
              /\ Bump(h, "term")
              /\ fr' = [fr EXCEPT ![Ctx].pc = "k_loop", ![Ctx].polls = 0]
         ELSE /\ KillReturns(Ctx, None)
              /\ UNCHANGED <<child, ev>>
    /\ UNCHANGED <<active, hd, hsnap, handler, prev, alive, res, hist, clock, sg>>

\* Lines 159-163: one turn of the grace loop: a non-blocking reap, `return
\* ind & 0xff` when the child died, else sleep 0.1 s.
KillPoll ==
    /\ AtAny("k_loop")
    /\ fr[Ctx].polls < GracePolls
    /\ LET h == fr[Ctx].h IN
         TryReap(Ctx, h, KillsigOf(WaitStatus(child[h])),
                 fr' = [fr EXCEPT ![Ctx].polls = @ + 1])
    /\ UNCHANGED <<active, hd, hsnap, handler, prev, alive, res, hist, clock, sg>>

\* Mutant: SIGKILL goes out although the grace period is not over.
KillKill_Early ==
    /\ AtAny("k_loop")
    /\ LET h == fr[Ctx].h IN
         IF child[h].st \in {"run", "eof", "zombie"}
         THEN /\ child' = [child EXCEPT ![h].kill = ChildAlive(h)]
              /\ Bump(h, "kill")
              /\ KillReturns(Ctx, SIGKILL)
         ELSE /\ KillReturns(Ctx, None)
              /\ UNCHANGED <<child, ev>>
    /\ UNCHANGED <<active, hd, hsnap, handler, prev, alive, res, hist, clock, sg>>

\* Lines 164-166: the deadline passed: os.kill(self.pid, signal.SIGKILL).
KillKill ==
    /\ AtAny("k_loop")
    /\ fr[Ctx].polls >= GracePolls
    /\ LET h == fr[Ctx].h IN
         IF child[h].st \in {"run", "eof", "zombie"}
         THEN /\ child' = [child EXCEPT ![h].kill = ChildAlive(h)]
              /\ Bump(h, "kill")
              /\ KillReturns(Ctx, SIGKILL)
         ELSE /\ KillReturns(Ctx, None)
              /\ UNCHANGED <<child, ev>>
    /\ UNCHANGED <<active, hd, hsnap, handler, prev, alive, res, hist, clock, sg>>

\* Mutant: line 187 is missing, killsig keeps what _kill returned.
CloseSet_KeepsKillsig ==
    /\ AtAny("c_set")
    /\ hd' = [hd EXCEPT ![fr[Ctx].h].endt = clock, ![fr[Ctx].h].status = None,
                        ![fr[Ctx].h].killsig = fr[Ctx].ret, ![fr[Ctx].h].done = TRUE]
    /\ clock' = clock + 1
    /\ Goto(Ctx, "c_out")
    /\ UNCHANGED <<active, child, hsnap, handler, prev, alive, res, ev, hist, sg>>

\* Mutant: line 188 is missing, close() leaves _done as it found it.
CloseSet_NoDone ==
    /\ AtAny("c_set")
    /\ hd' = [hd EXCEPT ![fr[Ctx].h].endt = clock, ![fr[Ctx].h].status = None,
                        ![fr[Ctx].h].killsig = SIGTERM]
    /\ clock' = clock + 1
    /\ Goto(Ctx, "c_out")
    /\ UNCHANGED <<active, child, hsnap, handler, prev, alive, res, ev, hist, sg>>

\* Lines 184-188: killsig = _kill(); _end; status = None; killsig = SIGTERM;
\* _done = 1.
CloseSet ==
    /\ AtAny("c_set")
    /\ hd' = [hd EXCEPT ![fr[Ctx].h].endt = clock, ![fr[Ctx].h].status = None,
                        ![fr[Ctx].h].killsig = SIGTERM, ![fr[Ctx].h].done = TRUE]
    /\ clock' = clock + 1
    /\ Goto(Ctx, "c_out")
    /\ UNCHANGED <<active, child, hsnap, handler, prev, alive, res, ev, hist, sg>>

\* Lines 189-190: the buffer is dropped, _closed = 1, close returns.
CloseFinish ==
    /\ AtAny("c_out")
    /\ hd' = [hd EXCEPT ![fr[Ctx].h].output = <<>>, ![fr[Ctx].h].closed = TRUE]
    /\ Return(Ctx, "none", 0)
    /\ UNCHANGED <<active, child, hsnap, handler, prev, alive, ev, hist, clock, sg>>

\* ------------------------------------------------------ the SIGTERM hook
\* What the owner is doing when a signal arrives: a blocking select (244) or
\* waitpid (296) that has not returned yet is interrupted.
OwnerBlocked ==
    LET f == fr["owner"] IN
      \/ f.pc = "w_select" /\ hd[f.h].cread /\ ~Readable(f.h)
      \/ f.pc = "cl_waitpid" /\ ChildAlive(f.h)

\* SIGTERM arrives while _handle_sigterm is installed (line 371): the handler
\* starts, line 367 takes the snapshot `_active[:]`.
DeliverToHook ==
    /\ alive /\ fr["hook"].pc = "idle"
    /\ sg.delivered < MaxSignals
    /\ handler = "hook"
    /\ hsnap' = active
    /\ \E e \in (IF OwnerBlocked THEN BOOLEAN ELSE {FALSE}) :
         fr' = [fr EXCEPT !["hook"].pc = "h_iter", !["owner"].eintr = e]
    /\ sg' = [sg EXCEPT !.delivered = @ + 1, !.hookruns = @ + 1, !.snap = active]
    /\ UNCHANGED <<active, hd, child, handler, prev, alive, res, ev, hist, clock>>

\* SIGTERM arrives after line 359 put the previous disposition back: the
\* previous handler acts (whatever it does: the default one would end the
\* process, which only removes behaviours).
DeliverToPrev ==
    /\ alive /\ fr["hook"].pc = "idle"
    /\ sg.delivered < MaxSignals
    /\ handler # "hook"
    /\ sg' = [sg EXCEPT !.delivered = @ + 1, !.prevcalls = @ + 1]
    /\ UNCHANGED <<active, hd, child, fr, hsnap, handler, prev, alive, res, ev, hist, clock>>

\* Lines 367-368 and 178-179: the next object of the snapshot; close()
\* returns at once when the object has no _closed attribute yet or is closed.
HookNext ==
    /\ At("hook", "h_iter")
    /\ hsnap # <<>>
    /\ LET obj == Head(hsnap) IN
         fr' = [fr EXCEPT !["hook"] =
                  IF hd[obj].st # "ready" \/ hd[obj].closed THEN @
                  ELSE Frame("close", obj, "c_member")]
    /\ hsnap' = Tail(hsnap)
    /\ UNCHANGED <<active, hd, child, handler, prev, alive, res, ev, hist, clock, sg>>

\* Lines 357-359: `if _PREV_SIGTERM is not None: signal.signal(SIGTERM,
\* _PREV_SIGTERM)`, and the handler returns.
HookRestore ==
    /\ At("hook", "h_iter")
    /\ hsnap = <<>>
    /\ handler' = IF prev # "None" THEN prev ELSE handler
    /\ fr' = [fr EXCEPT !["hook"] = IdleFrame]
    /\ UNCHANGED <<active, hd, child, hsnap, prev, alive, res, ev, hist, clock, sg>>

\* ------------------------------------------------------------------ next
Next ==
    \/ \E h \in Handles, p \in Plans : Spawn(h, p)
    \/ InitFields
    \/ \E h \in Handles : CallPoll(h)
    \/ PollSelect
    \/ PollReturn
    \/ \E h \in Handles, attr \in GetAttrs : CallGet(h, attr)
    \/ \E h \in Handles : CallWait(h)
    \/ \E h \in Handles : CallRead(h)
    \/ \E h \in Handles : CallReadline(h)
    \/ \E h \in Handles : CallReadlines(h)
    \/ WaitSelect
    \/ ReadTake
    \/ CleanupCheck
    \/ CleanupReadlines
    \/ CleanupCloseOut
    \/ CleanupReadErr
    \/ CleanupCloseErr
    \/ CleanupRaise
    \/ CleanupMember
    \/ CleanupRemove
    \/ CleanupWaitpid
    \/ CleanupSet
    \/ \E h \in Handles : CallClose(h)
    \/ CloseMember
    \/ CloseRemove
    \/ CloseDoneCheck
    \/ KillReapFirst
    \/ KillTerm
    \/ KillPoll
    \/ KillKill
    \/ CloseSet
    \/ CloseFinish
    \/ DeliverToHook
    \/ DeliverToPrev
    \/ HookNext
    \/ HookRestore
    \/ \E h \in Handles : ChildWrite(h)
    \/ \E h \in Handles : ChildExecFail(h)
    \/ \E h \in Handles : ChildReturn(h)
    \/ \E h \in Handles : ChildRaise(h)
    \/ \E h \in Handles : ChildCloseOut(h)
    \/ \E h \in Handles : ChildExit(h)
    \/ \E h \in Handles : ChildDie(h)

Spec == Init /\ [][Next]_vars
\* ================================================================ claims
Quiet == fr["owner"].pc = "idle" /\ fr["hook"].pc = "idle"
Count(l, x) == Cardinality({i \in 1..Len(l) : l[i] = x})

\* C1: the child's exit status is collected by a successful waitpid at most
\* once at all times, and at least once by the time the handle is Done or
\* Closed, also when close() escalated to SIGKILL.
C1_ReapedExactlyOnce ==
    \A h \in Handles :
      /\ ev[h].reaped <= 1
      /\ (hd[h].done \/ hd[h].closed) => ev[h].reaped >= 1

\* C2: the registry holds each handle at most once, holds it from construction
\* while it is Running (between two calls), and never holds a handle that is
\* Done or Closed.
C2_RegistryMembership ==
    \A h \in Handles :
      /\ Count(active, h) <= 1
      /\ hd[h].st = "new" => InList(active, h)
      /\ (Quiet /\ Was(h) = "running") => InList(active, h)
      /\ (hd[h].done \/ hd[h].closed) => ~InList(active, h)

\* C4: close() never raises, and when it has returned the handle is Closed.
C4_CloseNeverRaises ==
    res.op = "close" =>
      /\ res.t # "exc"
      /\ res.t = "ret" => hd[res.h].closed

\* C9: when a run of the hook is over and a previous handler exists, that
\* handler has been invoked in the same delivery.
C9_PreviousHandlerInvoked ==
    (/\ sg.hookruns > 0
     /\ fr["hook"].pc = "idle"
     /\ sg.delivered = sg.hookruns
     /\ prev # "None") => sg.prevcalls >= 1

\* The owner's call cannot go on until the child acts: it sits in a read to
\* end of file (280, 283) or in the blocking waitpid (296).
OwnerWaitsForChild ==
    LET f == fr["owner"] IN
      /\ alive /\ Ctx = "owner"
      /\ \/ f.pc \in {"cl_readlines", "cl_errread"} /\ ~PipeEOF(f.h)
         \/ f.pc = "cl_waitpid" /\ ~f.eintr /\ ChildAlive(f.h)
         \/ f.pc = "w_select" /\ ~f.eintr /\ hd[f.h].cread /\ ~Readable(f.h)

\* C10: poll() never blocks: whatever the child's state, a poll() in progress
\* can go on without any further action of the child.
C10_PollNeverBlocks ==
    ~(fr["owner"].op = "poll" /\ OwnerWaitsForChild)
\* The code of close() and _kill, in whichever context runs it.
CloseCode ==
    \/ CloseMember \/ CloseRemove \/ CloseDoneCheck \/ KillReapFirst \/ KillTerm
    \/ KillPoll \/ KillKill \/ CloseSet \/ CloseFinish

\* A step of the code of context c (the child's steps leave the frames alone).
CodeStep(c) == Ctx = c /\ fr'[c] # fr[c]

\* C3: close() on a handle that completed naturally sends no signal, makes no
\* waitpid and raises nothing; close() on a Closed handle changes nothing at
\* all: handle, registry, child and counters stay as the first close left them.
C3_Step ==
    /\ \A c \in Ctxs :
         (CodeStep(c) /\ fr[c].op = "close" /\ fr[c].was \in {"done", "closed"}) =>
           /\ child' = child
           /\ ev' = ev
           /\ fr'[c].pc \notin {"k_wait0", "k_term", "k_loop", "c_set"}
           /\ ~(res'.t = "exc" /\ res'.op = "close" /\ res'.was \in {"done", "closed"})
    /\ \A h \in Handles :
         (/\ Quiet /\ hd[h].closed /\ fr' = fr
          /\ res.op # "close" \/ res.was # "closed"
          /\ res'.op = "close" /\ res'.was = "closed" /\ res'.h = h) =>
           /\ res'.t = "ret"
           /\ hd' = hd /\ active' = active /\ child' = child /\ ev' = ev /\ clock' = clock

C3_CloseIdempotent == [][C3_Step]_vars

\* A second close() has returned on a handle that completed naturally and was
\* closed once before.
C3_Witness ==
    /\ res.op = "close" /\ res.t = "ret" /\ res.was = "closed"
    /\ ev[res.h].cleanup = 1 /\ ev[res.h].reaped = 1 /\ ev[res.h].term = 0
    /\ hd[res.h].status = 0

\* The lines of a byte string, said without the splitting loop: a line
\* starts at byte 1 and after every newline that is not the last byte.
LineStarts(s) ==
    IF s = <<>> THEN {} ELSE {1} \cup {j + 1 : j \in {i \in 1..(Len(s) - 1) : s[i] = NL}}

NthLine(s, k) ==
    IF k > Cardinality(LineStarts(s)) THEN <<>>
    ELSE LET a == CHOOSE x \in LineStarts(s) :
                    Cardinality({y \in LineStarts(s) : y < x}) = k - 1
             later == {b \in LineStarts(s) : b > a}
             z == IF later = {} THEN Len(s)
                  ELSE (CHOOSE b \in later : \A b2 \in later : b <= b2) - 1
         IN SubSeq(s, a, z)

\* C5: for an external command that wrote nothing to stderr, the first read()
\* returns everything it wrote to stdout, in order; every read call after a
\* read()/readlines() returns empty; successive readline() calls return its
\* lines one by one and then empty.
C5_ReadReturnsOutput ==
    \A h \in Handles :
      (/\ res.h = h /\ res.op \in {"read", "readline", "readlines"}
       /\ hd[h].kind = "sys" /\ child[h].err = <<>> /\ ~hd[h].closed) =>
        /\ sg.delivered = 0 => res.t = "ret"
        /\ res.t = "ret" =>
             /\ (res.op = "read" /\ hist[h].rd = 1 /\ hist[h].rl = 0) => res.v = child[h].out
             /\ (res.op \in {"read", "readlines"} /\ hist[h].rd >= 2) => res.v = <<>>
             /\ (res.op = "readline" /\ hist[h].rd >= 1) => res.v = <<>>
             /\ (res.op = "readline" /\ hist[h].rd = 0) =>
                  res.v = NthLine(child[h].out, hist[h].rl)

\* A first read() has returned MaxOut bytes, a newline among them.
C5_Witness ==
    /\ res.op = "read" /\ res.t = "ret" /\ hd[res.h].kind = "sys"
    /\ hist[res.h].rd = 1 /\ hist[res.h].rl = 0 /\ ~hd[res.h].closed
    /\ Len(res.v) = MaxOut /\ \E i \in 1..Len(res.v) : res.v[i] = NL

\* A close() that found the handle Running is under way on h.
ClosingRunning(h) ==
    \E c \in Ctxs : fr[c].op = "close" /\ fr[c].h = h /\ fr[c].was = "running"

\* C6: for a callable that returned v, the payload buffered at completion
\* stays intact through any poll() and wait() until it is read, and read()
\* returns a value equal to v.
C6_CallableResult ==
    \A h \in Handles :
      (hd[h].kind = "fn" /\ child[h].plan.what = "ret" /\ ~hd[h].closed) =>
        /\ (hd[h].done /\ hist[h].rd = 0 /\ ~ClosingRunning(h)) =>
             Join(hd[h].output) = Dumps(child[h].plan.v)
        /\ (res.h = h /\ res.op = "read" /\ sg.delivered = 0) => res.t = "ret"
        /\ (res.h = h /\ res.op = "read" /\ res.t = "ret" /\ hist[h].rd = 1) =>
             res.shape = "val" /\ res.v = child[h].plan.v

\* read() has returned the value whose pickle holds a newline, on a handle
\* that an earlier poll() or wait() had already found complete.
C6_Witness ==
    /\ res.op = "read" /\ res.t = "ret" /\ res.was = "done" /\ res.shape = "val"
    /\ res.v = [t |-> "int", n |-> NL]
    /\ ~hd[res.h].closed

\* C7: for a callable that raised kind K with message M, the call among
\* poll/wait/read that runs the cleanup raises K with message M to its caller
\* and returns nothing.
C7_ErrorSurfaced ==
    \A h \in Handles :
      (/\ child[h].plan.what = "raise" /\ child[h].err # <<>>
       /\ res.h = h /\ res.entered) =>
        /\ res.op \in {"poll", "wait", "read"}
        /\ res.t = "exc"
        /\ res.v = child[h].plan.e

\* poll() has raised the callable's error.
C7_Witness ==
    /\ res.op = "poll" /\ res.t = "exc" /\ res.entered
    /\ res.v = [kind |-> 2, msg |-> 8]

\* Steps left to close() at most, from a label.
CloseRank(f) ==
    CASE f.pc = "c_member" -> GracePolls + 8
      [] f.pc = "c_remove" -> GracePolls + 7
      [] f.pc = "c_done" -> GracePolls + 6
      [] f.pc = "k_wait0" -> GracePolls + 5
      [] f.pc = "k_term" -> GracePolls + 4
      [] f.pc = "k_loop" -> GracePolls + 3 - f.polls
      [] f.pc = "c_set" -> 2
      [] f.pc = "c_out" -> 1
      [] OTHER -> 0

\* C8: within close() SIGTERM goes out only after the non-blocking reap found
\* the child running, SIGKILL only after SIGTERM and GracePolls polls that all
\* found it running; a close() that returns on a handle that was Running
\* leaves the child reaped or sent SIGKILL; close() is never blocked and every
\* step of it brings it nearer to its return.
C8_Step ==
    /\ \A h \in Handles :
         /\ ev'[h].term > ev[h].term =>
              /\ fr[Ctx].pc = "k_term" /\ fr[Ctx].h = h /\ fr[Ctx].alive0
              /\ ev[h].term = 0 /\ ev[h].kill = 0 /\ ev[h].reaped = 0
         /\ ev'[h].kill > ev[h].kill =>
              /\ fr[Ctx].pc = "k_loop" /\ fr[Ctx].h = h /\ fr[Ctx].alive0
              /\ fr[Ctx].polls = GracePolls
              /\ ev[h].term = 1 /\ ev[h].kill = 0 /\ ev[h].reaped = 0
    /\ \A c \in Ctxs :
         (CodeStep(c) /\ fr[c].op = "close") =>
           /\ CloseRank(fr'[c]) < CloseRank(fr[c])
           /\ (fr[c].pc = "c_out" /\ fr[c].was = "running" /\ (c = "owner" => res'.t = "ret")) =>
                (ev'[fr[c].h].reaped >= 1 \/ ev'[fr[c].h].kill >= 1)
    /\ (alive /\ fr[Ctx].op = "close") => ENABLED CloseCode

C8_KillSequence == [][C8_Step]_vars

\* close() has returned on a Running handle after escalating to SIGKILL.
C8_Witness ==
    /\ res.op = "close" /\ res.t = "ret" /\ res.was = "running"
    /\ ev[res.h].term = 1 /\ ev[res.h].kill = 1 /\ ev[res.h].reaped = 0

\* C11: handle state only moves forward: no step resets the done flag or the
\* closed flag, a Closed handle always has the done flag set, no step takes a
\* handle from Done back to Running or from Closed to anything else (so each
\* transition happens at most once), and on a Closed handle poll() returns
\* true and wait() and read() return without entering the cleanup.
C11_Step ==
    /\ \A h \in Handles :
         /\ hd[h].done => hd'[h].done
         /\ hd[h].closed => hd'[h].closed
         /\ hd'[h].closed => hd'[h].done
         /\ Was(h) = "done" => Was(h)' \in {"done", "closed"}
         /\ Was(h) = "closed" => Was(h)' = "closed"
         /\ Was(h) = "running" => Was(h)' # "new"
    /\ (res'.was = "closed" /\ res'.op = "poll") => (res'.t = "ret" /\ res'.v = 1)
    /\ (res'.was = "closed" /\ res'.op = "wait") => (res'.t = "ret" /\ ~res'.entered)
    /\ (res'.was = "closed" /\ res'.op = "read") => (res'.t = "ret" /\ ~res'.entered)

C11_StateMovesForward == [][C11_Step]_vars

\* poll() has returned true on a handle that close() took from Running to
\* Closed.
C11_Witness ==
    /\ res.op = "poll" /\ res.t = "ret" /\ res.was = "closed" /\ res.v = 1
    /\ ev[res.h].cleanup = 0 /\ hd[res.h].done /\ hd[res.h].closed

\* What a name yields on the wrapped _CommandHandle itself when the call ends
\* in its first statement: the outcome and the value.
CommandResult(h, attr) ==
    CASE attr = "fileno" -> IF hd[h].cread THEN [t |-> "ret", v |-> h]
                            ELSE [t |-> "exc", v |-> ValueErr]
      [] attr = "elapsed" -> [t |-> "ret",
                              v |-> (IF hd[h].endt = None THEN clock ELSE hd[h].endt)
                                    - hd[h].start]
      [] attr = "pid" -> [t |-> "ret", v |-> h]
      [] attr = "status" -> [t |-> "ret", v |-> hd[h].status]
      [] attr = "killsig" -> [t |-> "ret", v |-> hd[h].killsig]
      [] attr = "poll" -> [t |-> "ret", v |-> 1]
      [] OTHER -> [t |-> "ret", v |-> 0]

\* C12: on a handle returned by copen_fn, readline and readlines always raise
\* AttributeError, never get into the wrapped handle and leave its flags,
\* buffer, registry entry and child as they were; close, wait, poll, elapsed,
\* fileno, pid, status and killsig never raise AttributeError, give what the
\* wrapped _CommandHandle gives in its current state, and enter the wrapped
\* handle's method at the statement its flags select.
C12_Step ==
    /\ \A h \in Handles :
         hd[h].kind = "fn" =>
           ~(/\ fr'["owner"].pc # "idle" /\ fr'["owner"].h = h
             /\ fr'["owner"].op \in ReadlinePrefixed)
    /\ (OwnerIdle /\ fr' = fr /\ child' = child /\ sg' = sg /\ res'.h \in Handles) =>
         LET h == res'.h
             op == res'.op
         IN hd[h].kind = "fn" =>
              /\ hd' = hd /\ active' = active /\ ev' = ev /\ hist' = hist /\ clock' = clock
              /\ op \in ReadlinePrefixed => (res'.t = "exc" /\ res'.v = AttributeErr)
              /\ op \notin ReadlinePrefixed =>
                   /\ res'.t = CommandResult(h, op).t
                   /\ res'.v = CommandResult(h, op).v
                   /\ op = "poll" => hd[h].done
                   /\ op = "wait" => hd[h].done
                   /\ op = "close" => hd[h].closed
    /\ (OwnerIdle /\ fr'["owner"].pc # "idle" /\ hd[fr'["owner"].h].kind = "fn") =>
         LET f == fr'["owner"] IN
           /\ f.op = "poll" => (~hd[f.h].done /\ f.pc = "p_select")
           /\ f.op = "wait" => (~hd[f.h].done /\ f.pc = "w_select")
           /\ f.op = "close" => (~hd[f.h].closed /\ f.pc = "c_member")

C12_AdapterForwards == [][C12_Step]_vars

\* readlines() has raised AttributeError on a callable's handle whose payload
\* an earlier poll() or wait() had buffered; the buffer is still there.
C12_Witness ==
    /\ res.op = "readlines" /\ res.t = "exc" /\ res.v = AttributeErr
    /\ hd[res.h].kind = "fn" /\ hd[res.h].done /\ ~hd[res.h].closed
    /\ hd[res.h].output # <<>>

\* C13: for one handle the body of _cleanup_child (lines 280-299) is entered
\* at most once, whatever poll/wait/read calls are made, also after a cleanup
\* that raised the child's error and also when the hook's close() runs in
\* the middle of it.
C13_CleanupEnteredOnce == \A h \in Handles : ev[h].cleanup <= 1

\* After a cleanup that raised the child's error, a later poll/wait/read has
\* ended without entering the body again.
C13_Witness ==
    /\ res.op \in {"poll", "wait", "read"} /\ res.t = "exc" /\ ~res.entered
    /\ child[res.h].plan.what = "raise"
    /\ ev[res.h].cleanup = 1 /\ ~hd[res.h].done

\* C14: when the poll/wait/read call that ran the cleanup has ended, by
\* returning or by raising the child's error, the handle is Done: out of the
\* registry, its child reaped, its end time recorded, its done flag set.
C14_ObserverLeavesDone ==
    (res.op \in {"poll", "wait", "read", "readline", "readlines"} /\ res.entered) =>
      /\ hd[res.h].done
      /\ ~InList(active, res.h)
      /\ ev[res.h].reaped >= 1
      /\ hd[res.h].endt # None

\* C15: when close() finds a not-yet-Done handle whose child has already
\* exited with code c, its first, non-blocking waitpid collects the child, no
\* signal goes out, and once the handle is Closed its status is c.
C15_ReapedStatusAdopted ==
    \A h \in Handles :
      /\ \A c \in Ctxs :
           (fr[c].op = "close" /\ fr[c].h = h /\ fr[c].pc \in {"k_term", "k_loop"}) =>
             fr[c].alive0
      /\ (hd[h].closed /\ ev[h].cleanup = 0 /\ ev[h].reaped = 1 /\ ev[h].term = 0) =>
           (ev[h].kill = 0 /\ hd[h].status = child[h].code)

\* C16: whenever a close() that found the handle not yet Done returns, from
\* the owner or from the hook, killsig is SIGTERM and status is None: when the
\* child had exited on its own and no signal was sent, when it died within
\* the grace period, and when SIGKILL was sent.
C16_Step ==
    \A c \in Ctxs :
      (CodeStep(c) /\ fr[c].op = "close" /\ fr[c].pc = "c_out" /\ fr[c].was = "running") =>
        /\ hd'[fr[c].h].closed
        /\ hd'[fr[c].h].killsig = SIGTERM
        /\ hd'[fr[c].h].status = None

C17_StreamsClosedOnce ==
    \A h \in Handles :
      /\ ev[h].cclose <= 1 /\ ev[h].eclose <= 1
      /\ (hd[h].done \/ hd[h].closed) =>
           /\ ev[h].cclose = 1 /\ ev[h].eclose = 1
           /\ ~hd[h].cread /\ ~hd[h].errread

\* C18: removal from the registry tolerates the hook: whenever close() or the
\* cleanup is about to execute `_active.remove(self)`, also after the hook ran
\* between the membership test and the removal, the removal does not raise
\* (the handle is still there to be removed); the registry never holds a
\* handle twice and never holds a Closed one.
C18_RemovalToleratesHook ==
    /\ \A c \in Ctxs :
         (alive /\ Ctx = c /\ fr[c].pc \in {"c_remove", "cl_remove"}) =>
           InList(active, fr[c].h)
    /\ \A h \in Handles :
         /\ Count(active, h) <= 1
         /\ hd[h].closed => ~InList(active, h)

\* C19: when a run of the hook is over, every handle that was in the registry
\* when the signal arrived is Closed, its child has been reaped or sent
\* SIGKILL, and the registry does not hold it, wherever the signal found the
\* owner: also between `_active.append(self)` and the end of __init__, and
\* in the middle of the cleanup.
C19_HookClosesAll ==
    (sg.hookruns > 0 /\ fr["hook"].pc = "idle") =>
      \A i \in 1..Len(sg.snap) :
        LET h == sg.snap[i] IN
          /\ hd[h].closed
          /\ ev[h].reaped >= 1 \/ ev[h].kill >= 1
          /\ ~InList(active, h)

\* C20: once a handle's done flag is set, no later step changes its status,
\* its killsig or its end time: not close() on a Done handle, and not a
\* cleanup that goes on after the hook has closed the handle.
C20_Step ==
    \A h \in Handles :
      hd[h].done =>
        /\ hd'[h].status = hd[h].status
        /\ hd'[h].killsig = hd[h].killsig
        /\ hd'[h].endt = hd[h].endt

C20_DoneFieldsFrozen == [][C20_Step]_vars
====
